---------------------------- MODULE Spec2Model ----------------------------
(***************************************************************************)
(* The cooperative task scheduler of demikernel                            *)
(* (src/rust/scheduler/scheduler.rs), its TaskGroup                        *)
(* (src/rust/runtime/scheduler/group.rs) and the network queue             *)
(* (src/rust/demikernel/libos/network/queue.rs), as state machines.        *)
(*                                                                         *)
(* A waker page's three u64 bitmasks are sets of bit offsets; BitIter      *)
(* visits the set bits of a mask from the lowest offset up.  The random    *)
(* number generator is a nondeterministic draw from Ids.  Scheduler::poll  *)
(* is split at the places where something else can run: a wake from        *)
(* another thread can arrive between any two of its steps, and while a     *)
(* task is being polled (the scheduler's borrows are released around       *)
(* Future::poll) the task may insert new tasks.  The application's own     *)
(* calls (insert, take, the handle operations) run between ticks.          *)
(* from_raw_handle makes further handles for the id of a task, so that a   *)
(* handle may be held after take has consumed another for the same id:     *)
(* handles is the set of the handles issued so far, and using one does     *)
(* not take it out of the set.                                             *)
(*                                                                         *)
(* The socket state machine, the transport and the coroutine constructors  *)
(* are not part of the sources at hand.  The state machine follows the     *)
(* table of allowed operations and the errno mapping of the design         *)
(* document; the transport's calls and the constructors succeed or fail    *)
(* nondeterministically.  A coroutine of the queue is split at its await:  *)
(* one step up to the call of the transport, one step from the             *)
(* transport's answer to the return.                                       *)
(***************************************************************************)
EXTENDS Integers, Sequences, FiniteSets, TLC

\* ------------------------------------------------------------- bounds
\* Slots of the pinned slab.
MaxSlots == 3
\* Width of a waker page (WAKER_BIT_LENGTH, 64 in the program), scaled down
\* so that a few slots span several pages.
W == 2
\* Size of the domain the id generator draws from (u64 in the program).
MaxId == 2
\* The ticks a task has lived through are counted up to this number.
MaxCount == 2
\* Socket addresses, queue tokens and socket descriptors to choose from.
MaxAddr == 2
MaxToken == 2
MaxFd == 2

Slots == 0 .. (MaxSlots - 1)
Ids == 0 .. (MaxId - 1)
MoreIds == 0 .. MaxId
Offsets == 0 .. (W - 1)

Min(S) == CHOOSE x \in S : \A y \in S : x <= y
Sat(n) == IF n < MaxCount THEN n + 1 ELSE n

\* ------------------------------------------------------------- tasks
\* A vacant slab slot.
NoTask == [kind |-> "none", val |-> 0]
\* DummyCoroutine { val }.
Dummy(v) == [kind |-> "dummy", val |-> v]
\* A task that waits for an external event: it keeps the waker of its
\* context and returns what the event source decides.
IoTask == [kind |-> "io", val |-> 0]

\* DummyCoroutine::poll: Ready when val is even; otherwise val += 1, wake
\* the own waker, Pending.
DummyReady(t) == t.val % 2 = 0
DummyAfterPoll(t) == IF DummyReady(t) THEN t ELSE [t EXCEPT !.val = t.val + 1]

\* --------------------------------------------------------- waker page
\* WakerPageRef::default().
DefaultPage == [notified |-> {}, completed |-> {}, dropped |-> {}]
\* initialize(ix): clear the three bits of ix, then set notified.
PageInitialize(p, ix) ==
    [notified |-> p.notified \cup {ix},
     completed |-> p.completed \ {ix},
     dropped |-> p.dropped \ {ix}]
\* wake(ix): set the notified bit.
PageNotify(p, ix) == [p EXCEPT !.notified = @ \cup {ix}]
\* mark_completed(ix): set the completed bit; clear notified.
PageMarkCompleted(p, ix) ==
    [p EXCEPT !.completed = @ \cup {ix}, !.notified = @ \ {ix}]
\* mark_dropped(ix): set the dropped bit.
PageMarkDropped(p, ix) == [p EXCEPT !.dropped = @ \cup {ix}]
\* clear(ix): clear the three bits of ix.
PageClear(p, ix) ==
    [notified |-> p.notified \ {ix},
     completed |-> p.completed \ {ix},
     dropped |-> p.dropped \ {ix}]

\* ---------------------------------------------------------- Scheduler
VARIABLES
    tasks,      \* Scheduler.tasks: slot -> task, NoTask when vacant
    task_ids,   \* Scheduler.task_ids: id -> slot, a partial function
    pages,      \* Scheduler.pages: sequence of waker pages
    handles,    \* the SchedulerHandles issued: records [id, offset]
    wakers,     \* slots an outstanding Waker refers to
    pc,         \* where Scheduler::poll is: idle, loop, notified, polling;
                \* or panic after a failed unwrap/assert
    page_ix,    \* poll: the page the loop is at
    poll_len,   \* poll: pages.len() when the loop started
    notified,   \* poll: bits of the taken notified mask still to visit
    dropped,    \* poll: the taken dropped mask
    cur,        \* poll: the slot being polled
    polled,     \* history: slots polled in this tick, in order
    taken,      \* history: slots whose notified bit a take of this tick read
    hist,       \* history per slot, since the task in it was inserted
    woken,      \* history per slot: wakes since the last take of its page
    due         \* history per slot: the last wake a polled task delivered
                \* to it, and the tick whose take read that wake

schedVars == <<tasks, task_ids, pages, handles, wakers>>
pollVars == <<pc, page_ix, poll_len, notified, dropped, cur>>
histVars == <<polled, taken, hist, woken, due>>

\* ------------------------------------------- TaskGroup, NetworkQueue
VARIABLES
    group,      \* the TaskGroup: [ids, tasks, waker_page_refs]
    gret,       \* the last call on the TaskGroup and what it returned
    gtick,      \* the tick over the TaskGroup: [on, ready], the slots that
                \* get_offsets_for_ready_tasks returned and are still to poll
    ghist,      \* history of the TaskGroup: [wakers, due, woken], the slots
                \* a Waker refers to, the slots another task has woken while
                \* it was polled and the slots with a wake that was not cleared,
                \* the last two since the last get_offsets_for_ready_tasks
    queue,      \* the NetworkQueue: [qtype, state_machine, socket, local, remote]
    co,         \* the coroutines of the queue: kind -> [pc, arg, io, res, out]
    qret        \* the last call on the queue and what it returned

groupVars == <<group, gret, gtick, ghist>>
queueVars == <<queue, co, qret>>
vars == <<schedVars, pollVars, histVars, groupVars, queueVars>>

\* No slot: the value of cur while no task is being polled.
NoSlot == -1

\* No id: the id of a vacant slot's history.
NoId == -1

\* History of the task in a slot: id, the id insert returned for it; mid,
\* whether it was inserted while a tick was running; ended, the ticks that
\* began after its insertion and have returned (-1 until the tick it was
\* inserted in returns); once, whether it was polled; owed, whether it was
\* woken since its last poll began (and that poll, if it has returned, did
\* not return Ready).
NewHist(i, m) ==
    [id |-> i, mid |-> m, ended |-> IF m THEN -1 ELSE 0, once |-> FALSE,
     owed |-> FALSE]
NoHist == NewHist(NoId, FALSE)

\* woken[s] tells what happened to slot s since the last take_notified of
\* its page: "init" when it was initialized, "yes" when wake was invoked on
\* it, "cleared" when mark_completed or clear was called on it after a wake,
\* and "no" otherwise.
ClearedOf(w) == IF w = "yes" THEN "cleared" ELSE IF w = "init" THEN "no" ELSE w

\* due[s] tells of the last wake that a task delivered to slot s while it
\* was polled: "ahead" when the page of s had not had its masks taken in
\* that tick, "behind" when it had; "next" once the tick of a "behind" wake
\* has returned; "same" when s was then polled in the tick of the wake and
\* "later" when it was polled in the tick after; "none" without such a wake.
WokenAt(page, at) == IF page > at THEN "ahead" ELSE "behind"
Observed(d) ==
    IF d = "ahead" THEN "same" ELSE IF d = "next" THEN "later" ELSE d
AtTickEnd(d) == IF d = "behind" THEN "next" ELSE d

\* get_page_offsets: (offset >> SHIFT, offset & (W - 1)).
PageOf(offset) == offset \div W
BitOf(offset) == offset % W
\* (page_ix << SHIFT) + subpage_ix.
SlotOf(p, b) == p * W + b

Occupied(s) == tasks[s] # NoTask

\* The page of a slot, and the pages with one page replaced.
PageAt(i) == pages[i + 1]
WithPage(i, p) == [pages EXCEPT ![i + 1] = p]

\* TaskGroup::default(): no id, an empty slab, no waker page.
EmptyGroup ==
    [ids |-> << >>, tasks |-> [s \in Slots |-> NoTask], waker_page_refs |-> << >>]

\* A call and what it returned: op is the function, arg its argument, val
\* the result ("panic" when the call aborted), ready the slots that
\* get_offsets_for_ready_tasks returned.
Called(op, arg, val) == [op |-> op, arg |-> arg, val |-> val, ready |-> << >>]
NoCall == Called("none", 0, "none")

\* No tick runs over the TaskGroup; no Waker of it is held, no task of it
\* was woken by another.
NoTick == [on |-> FALSE, ready |-> << >>]
NoGroupHist == [wakers |-> {}, due |-> {}, woken |-> {}]

\* Socket addresses, queue tokens and socket descriptors; 0 is None.
NoAddr == 0
Addrs == 1 .. MaxAddr
NoToken == 0
Tokens == 1 .. MaxToken
NoFd == 0
Fds == 1 .. MaxFd

\* Result<_, Fail>: Ok(()), Ok(qt), or Err(Fail) with the errno and the
\* origin of the failure as its cause.
OkUnit == [ok |-> TRUE, errno |-> "none", cause |-> "none", qt |-> NoToken]
OkToken(qt) == [ok |-> TRUE, errno |-> "none", cause |-> "none", qt |-> qt]
Fail(errno, cause) == [ok |-> FALSE, errno |-> errno, cause |-> cause, qt |-> NoToken]
NoResult == [ok |-> FALSE, errno |-> "none", cause |-> "none", qt |-> NoToken]

\* A call on the queue (or on its state machine) and what it returned.
\* io is the answer of the transport when the call reached it.
QCalled(op, arg, res, io) == [op |-> op, arg |-> arg, res |-> res, io |-> io]
NoQCall == QCalled("none", 0, NoResult, NoResult)

\* No queue has been made yet.
NoQueue ==
    [qtype |-> "none", state_machine |-> [current |-> "none", next |-> "none"],
     socket |-> NoFd, local |-> NoAddr, remote |-> NoAddr]

\* The coroutines of the queue, one of each kind at a time.  pc: "none",
\* "spawned" (constructed, not yet polled), "awaiting" (suspended in the
\* transport's call), "done".  arg: the address the constructor was given,
\* io: the transport's answer, res: the coroutine's result, out: the queue
\* that accept_coroutine returned.
Kinds == {"accept", "connect", "close", "push", "pop"}
NoCo ==
    [pc |-> "none", arg |-> NoAddr, io |-> NoResult, res |-> NoResult,
     out |-> NoQueue]
NoCoroutines == [k \in Kinds |-> NoCo]

\* Scheduler::default(), TaskGroup::default(); no queue yet.
Init ==
    /\ tasks = [s \in Slots |-> NoTask]
    /\ task_ids = << >>
    /\ pages = << >>
    /\ handles = {}
    /\ wakers = {}
    /\ pc = "idle"
    /\ page_ix = 0
    /\ poll_len = 0
    /\ notified = {}
    /\ dropped = {}
    /\ cur = NoSlot
    /\ polled = << >>
    /\ taken = {}
    /\ hist = [s \in Slots |-> NoHist]
    /\ woken = [s \in Slots |-> "no"]
    /\ due = [s \in Slots |-> "none"]
    /\ group = EmptyGroup
    /\ gret = NoCall
    /\ gtick = NoTick
    /\ ghist = NoGroupHist
    /\ queue = NoQueue
    /\ co = NoCoroutines
    /\ qret = NoQCall

\* pages.push(default) while offset >= pages.len() << SHIFT.
RECURSIVE GrowPages(_, _)
GrowPages(ps, offset) ==
    IF offset >= Len(ps) * W THEN GrowPages(Append(ps, DefaultPage), offset) ELSE ps

\* The id loop of insert: every draw that is in use is written over with
\* the new offset (HashMap::insert replaces the value and returns the old
\* one) and drawn again; the first unused draw is kept.
DrawId(ids, coll, id, offset) ==
    [i \in (DOMAIN ids) \cup {id} |->
        IF i \in coll \cup {id} THEN offset ELSE ids[i]]

\* PinSlab::insert returns the index of a vacant slot; which one is the
\* slab's choice, and insert copes with any (it adds pages across a gap).
SlabFree == {s \in Slots : ~Occupied(s)}

\* Mutant of InsertPages: the slot's bits are cleared and notified is not set.
InsertPagesNoNotify(ps, offset) ==
    [GrowPages(ps, offset) EXCEPT
        ![PageOf(offset) + 1] = PageClear(@, BitOf(offset))]

\* Mutant of InsertPages: notified is set and the other bits are left.
InsertPagesKeepsBits(ps, offset) ==
    [GrowPages(ps, offset) EXCEPT
        ![PageOf(offset) + 1] = PageNotify(@, BitOf(offset))]

\* The pages after insert: pages are added up to the slot's page and the
\* slot's bits are initialized.
InsertPages(ps, offset) ==
    [GrowPages(ps, offset) EXCEPT
        ![PageOf(offset) + 1] = PageInitialize(@, BitOf(offset))]

\* The tasks a caller inserts.
NewTasks == {Dummy(0), Dummy(1), IoTask}

\* Scheduler::insert(future), from the application or from a task that is
\* being polled.  The slab gives a vacant slot; the generator draws from the
\* ids of I.
InsertFrom(I) ==
    /\ pc \in {"idle", "polling"}
    /\ \E offset \in SlabFree, t \in NewTasks :
       \E id \in I \ DOMAIN task_ids, coll \in SUBSET (DOMAIN task_ids) :
        /\ tasks' = [tasks EXCEPT ![offset] = t]
        /\ task_ids' = DrawId(task_ids, coll, id, offset)
        /\ pages' = InsertPages(pages, offset)
        /\ handles' = handles \cup {[id |-> id, offset |-> offset]}
        /\ hist' = [hist EXCEPT ![offset] = NewHist(id, pc # "idle")]
        /\ woken' = [woken EXCEPT ![offset] = "init"]
        /\ due' = [due EXCEPT ![offset] = "none"]
    /\ UNCHANGED <<wakers, pollVars, polled, taken>>
    /\ UNCHANGED <<groupVars, queueVars>>

Insert == InsertFrom(Ids)

\* insert with one more id to draw: ids are never given back, so the number
\* of ids is the number of inserts of a run.
InsertMore == InsertFrom(MoreIds)

\* Scheduler::take(handle).  The slot is looked up under the handle's
\* token; the id stays in task_ids.  The assert and the unwrap panic.
Take ==
    /\ pc = "idle"
    /\ \E h \in handles :
        LET offset == task_ids[h.id]
            page == PageAt(PageOf(offset))
        IN  IF BitOf(offset) \in page.dropped
            THEN /\ pc' = "panic"
                 /\ UNCHANGED <<tasks, pages, hist, woken, due>>
            ELSE /\ pages' = WithPage(PageOf(offset), PageClear(page, BitOf(offset)))
                 /\ tasks' = [tasks EXCEPT ![offset] = NoTask]
                 /\ hist' = [hist EXCEPT ![offset] = NoHist]
                 /\ woken' = [woken EXCEPT ![offset] = ClearedOf(@)]
                 /\ due' = [due EXCEPT ![offset] = "none"]
                 /\ pc' = IF Occupied(offset) THEN "idle" ELSE "panic"
    /\ UNCHANGED <<task_ids, handles, wakers, page_ix, poll_len, notified, dropped,
                   cur, polled, taken>>
    /\ UNCHANGED <<groupVars, queueVars>>

\* None, the answer of from_raw_handle without a handle.
NoHandle == [id |-> NoId, offset |-> NoSlot]

\* The value of Scheduler::from_raw_handle(task_id): None when the id is
\* not in the table or the slot the table gives for it is vacant, otherwise
\* a handle of that id for that slot.
from_raw_handle(task_id) ==
    IF task_id \notin DOMAIN task_ids THEN NoHandle
    ELSE IF ~Occupied(task_ids[task_id]) THEN NoHandle
    ELSE [id |-> task_id, offset |-> task_ids[task_id]]

\* Scheduler::from_raw_handle(task_id): a handle when the id is in the table
\* and its slot holds a task.
FromRawHandle ==
    /\ pc = "idle"
    /\ \E id \in DOMAIN task_ids :
        /\ from_raw_handle(id) # NoHandle
        /\ handles' = handles \cup {from_raw_handle(id)}
    /\ UNCHANGED <<tasks, task_ids, pages, wakers, pollVars, histVars>>
    /\ UNCHANGED <<groupVars, queueVars>>

\* Drop of a SchedulerHandle that still holds its token: the dropped bit of
\* its slot is set on its page.
DropHandle ==
    /\ pc = "idle"
    /\ \E h \in handles :
        pages' = WithPage(PageOf(h.offset),
                     PageMarkDropped(PageAt(PageOf(h.offset)), BitOf(h.offset)))
    /\ UNCHANGED <<tasks, task_ids, handles, wakers, pollVars, histVars>>
    /\ UNCHANGED <<groupVars, queueVars>>

\* A Waker handed out by an earlier poll is invoked, from this or another
\* thread, at any moment: the notified bit of its slot is set.
Wake ==
    /\ pc # "panic"
    /\ \E s \in wakers :
        /\ pages' = WithPage(PageOf(s), PageNotify(PageAt(PageOf(s)), BitOf(s)))
        /\ hist' = [hist EXCEPT ![s].owed = Occupied(s)]
        /\ woken' = [woken EXCEPT ![s] = "yes"]
    /\ UNCHANGED <<tasks, task_ids, handles, wakers, pollVars, polled, taken, due>>
    /\ UNCHANGED <<groupVars, queueVars>>

\* The task that is being polled invokes the Waker of another task: the
\* notified bit of that task's slot is set while the tick is at the page of
\* the polled task.
WakeOther ==
    /\ pc = "polling"
    /\ \E s \in wakers \ {cur} :
        /\ Occupied(s)
        /\ pages' = WithPage(PageOf(s), PageNotify(PageAt(PageOf(s)), BitOf(s)))
        /\ hist' = [hist EXCEPT ![s].owed = TRUE]
        /\ woken' = [woken EXCEPT ![s] = "yes"]
        /\ due' = [due EXCEPT ![s] = WokenAt(PageOf(s), page_ix)]
    /\ UNCHANGED <<tasks, task_ids, handles, wakers, pollVars, polled, taken>>
    /\ UNCHANGED <<groupVars, queueVars>>

\* Scheduler::poll is entered: for page_ix in 0..pages.len().
PollStart ==
    /\ pc = "idle"
    /\ pc' = "loop"
    /\ page_ix' = 0
    /\ poll_len' = Len(pages)
    /\ UNCHANGED <<schedVars, notified, dropped, cur, histVars>>
    /\ UNCHANGED <<groupVars, queueVars>>

\* Mutant of NotifiedToPoll: the bits of dropped slots are left out.
NotifiedSkippingDropped(p) == p.notified \ p.dropped

\* The bits of the taken notified mask that poll visits: all of them.
NotifiedToPoll(p) == p.notified

\* Mutant of PageAfterTake: the notified mask is read and not zeroed.
PageAfterTakeKeepsNotified(p) == [p EXCEPT !.dropped = {}]

\* The page once take_notified and take_dropped have zeroed their masks.
PageAfterTake(p) == [p EXCEPT !.notified = {}, !.dropped = {}]

\* (page.take_notified(), page.take_dropped()): both masks are read and
\* zeroed.
TakePage ==
    /\ pc = "loop"
    /\ page_ix < poll_len
    /\ notified' = NotifiedToPoll(PageAt(page_ix))
    /\ dropped' = PageAt(page_ix).dropped
    /\ pages' = WithPage(page_ix, PageAfterTake(PageAt(page_ix)))
    /\ taken' = taken \cup {SlotOf(page_ix, b) : b \in PageAt(page_ix).notified}
    /\ woken' = [s \in Slots |-> IF PageOf(s) = page_ix THEN "no" ELSE woken[s]]
    /\ pc' = "notified"
    /\ UNCHANGED <<tasks, task_ids, handles, wakers, page_ix, poll_len, cur,
                   polled, hist, due>>
    /\ UNCHANGED <<groupVars, queueVars>>

\* Mutant of NextBit: the highest set bit first.
NextBitHighest(mask) == CHOOSE x \in mask : \A y \in mask : y <= x

\* BitIter::from(mask): the next bit it yields is the lowest set bit.
NextBit(mask) == Min(mask)

\* The next set bit of the taken mask: the waker is made, the task is
\* looked up (unwrap) and Future::poll is entered.
PollBegin ==
    /\ pc = "notified"
    /\ notified # {}
    /\ LET ix == SlotOf(page_ix, NextBit(notified))
       IN  /\ notified' = notified \ {NextBit(notified)}
           /\ IF Occupied(ix)
              THEN /\ pc' = "polling"
                   /\ cur' = ix
                   /\ polled' = Append(polled, ix)
                   /\ hist' = [hist EXCEPT ![ix].once = TRUE, ![ix].owed = FALSE]
                   /\ due' = [due EXCEPT ![ix] = Observed(@)]
              ELSE /\ pc' = "panic"
                   /\ UNCHANGED <<cur, polled, hist, due>>
    /\ UNCHANGED <<schedVars, page_ix, poll_len, dropped, taken, woken>>
    /\ UNCHANGED <<groupVars, queueVars>>

\* What the task does with its waker while it is polled, and its result.
SelfWake(t) == t.kind = "dummy" /\ ~DummyReady(t)
KeepsWaker(t) == t.kind = "io"
Results(t) == IF t.kind = "dummy" THEN {DummyReady(t)} ELSE BOOLEAN

\* Mutant of AfterPoll: Ready does not mark the slot completed.
AfterPollNoMark(p, b, woke, ready) == IF woke THEN PageNotify(p, b) ELSE p

\* Mutant of AfterPoll: the slot is marked completed whatever the result.
AfterPollAlwaysMark(p, b, woke, ready) ==
    PageMarkCompleted(IF woke THEN PageNotify(p, b) ELSE p, b)

\* Mutant of AfterPoll: the notified bit is cleared after a Pending poll.
AfterPollLosesWake(p, b, woke, ready) ==
    IF ready THEN PageMarkCompleted(p, b) ELSE [p EXCEPT !.notified = @ \ {b}]

\* The page of the polled slot once Future::poll has returned: Ready marks
\* the slot completed.
AfterPoll(p, b, woke, ready) ==
    LET q == IF woke THEN PageNotify(p, b) ELSE p
    IN  IF ready THEN PageMarkCompleted(q, b) ELSE q

\* Future::poll returns ready (Ready or Pending): poll goes on.
PollEndReturning(ready) ==
    /\ pc = "polling"
    /\ ready \in Results(tasks[cur])
    /\ pages' = WithPage(PageOf(cur),
                    AfterPoll(PageAt(PageOf(cur)), BitOf(cur),
                              SelfWake(tasks[cur]), ready))
    /\ tasks' = [tasks EXCEPT ![cur] =
                    IF @.kind = "dummy" THEN DummyAfterPoll(@) ELSE @]
    /\ wakers' = IF KeepsWaker(tasks[cur]) THEN wakers \cup {cur} ELSE wakers
    /\ hist' = [hist EXCEPT ![cur].owed = ~ready /\ (@ \/ SelfWake(tasks[cur]))]
    /\ woken' = [woken EXCEPT ![cur] =
                    IF ready THEN ClearedOf(IF SelfWake(tasks[cur]) THEN "yes" ELSE @)
                    ELSE IF SelfWake(tasks[cur]) THEN "yes" ELSE @]
    /\ pc' = "notified"
    /\ cur' = NoSlot
    /\ UNCHANGED <<task_ids, handles, page_ix, poll_len, notified, dropped, polled,
                   taken, due>>
    /\ UNCHANGED <<groupVars, queueVars>>

\* Future::poll returns.
PollEnd == \E ready \in BOOLEAN : PollEndReturning(ready)

\* The bits of the taken dropped mask that poll acts on.
DroppedToRemove(mask) == {b \in mask : b # 0}

\* clear(ix) for every ix of a set.
RECURSIVE ClearAll(_, _)
ClearAll(p, bs) ==
    IF bs = {} THEN p ELSE ClearAll(PageClear(p, Min(bs)), bs \ {Min(bs)})

\* All notified bits of the page were visited: the tasks of the taken
\* dropped mask are removed and their bits cleared; on to the next page.
HandleDropped ==
    /\ pc = "notified"
    /\ notified = {}
    /\ LET gone == {SlotOf(page_ix, b) : b \in DroppedToRemove(dropped)}
       IN  /\ tasks' = [s \in Slots |-> IF s \in gone THEN NoTask ELSE tasks[s]]
           /\ hist' = [s \in Slots |-> IF s \in gone THEN NoHist ELSE hist[s]]
           /\ woken' = [s \in Slots |-> IF s \in gone THEN ClearedOf(woken[s]) ELSE woken[s]]
           /\ due' = [s \in Slots |-> IF s \in gone THEN "none" ELSE due[s]]
           /\ pages' = WithPage(page_ix,
                           ClearAll(PageAt(page_ix), DroppedToRemove(dropped)))
    /\ dropped' = {}
    /\ page_ix' = page_ix + 1
    /\ pc' = "loop"
    /\ UNCHANGED <<task_ids, handles, wakers, poll_len, notified, cur, polled, taken>>
    /\ UNCHANGED <<groupVars, queueVars>>

\* The loop is over: poll returns.
PollReturn ==
    /\ pc = "loop"
    /\ page_ix = poll_len
    /\ pc' = "idle"
    /\ page_ix' = 0
    /\ poll_len' = 0
    /\ polled' = << >>
    /\ taken' = {}
    /\ hist' = [s \in Slots |->
                  IF Occupied(s) THEN [hist[s] EXCEPT !.ended = Sat(@)] ELSE hist[s]]
    /\ due' = [s \in Slots |-> AtTickEnd(due[s])]
    /\ UNCHANGED <<schedVars, notified, dropped, cur, woken>>
    /\ UNCHANGED <<groupVars, queueVars>>

Next ==
    \/ Insert
    \/ Take
    \/ FromRawHandle
    \/ DropHandle
    \/ Wake
    \/ PollStart
    \/ TakePage
    \/ PollBegin
    \/ PollEnd
    \/ HandleDropped
    \/ PollReturn

Spec == Init /\ [][Next]_vars

\* An application that inserts, takes and polls only (it drops no handle and
\* invokes no waker), with one more insert than under Spec.
NextInsertTakePoll ==
    \/ InsertMore
    \/ Take
    \/ PollStart
    \/ TakePage
    \/ PollBegin
    \/ PollEnd
    \/ HandleDropped
    \/ PollReturn

SpecInsertTakePoll == Init /\ [][NextInsertTakePoll]_vars

\* The steps of a scheduler whose tasks wake each other while they are
\* polled; wakers are invoked from outside too.
TaskWakesTask ==
    \/ Insert
    \/ Take
    \/ DropHandle
    \/ Wake
    \/ WakeOther
    \/ PollStart
    \/ TakePage
    \/ PollBegin
    \/ PollEnd
    \/ HandleDropped
    \/ PollReturn

\* ---------------------------------------------------------- TaskGroup
\* runtime/scheduler/group.rs.  The calls of one TaskGroup, each a step.

GroupOccupied(s) == group.tasks[s] # NoTask
GroupPage(i) == group.waker_page_refs[i + 1]

\* The function f without the key k (IdMap::remove).
Without(f, k) == [i \in (DOMAIN f) \ {k} |-> f[i]]

\* TaskGroup::insert(task): a slab slot, a new id from the IdMap, pages up
\* to the slot's page, initialize.
GroupInsert ==
    /\ gret.val # "panic"
    /\ \E s \in {x \in Slots : ~GroupOccupied(x)}, t \in NewTasks,
          id \in Ids \ DOMAIN group.ids :
        /\ group' = [ids |-> [i \in (DOMAIN group.ids) \cup {id} |->
                                 IF i = id THEN s ELSE group.ids[i]],
                     tasks |-> [group.tasks EXCEPT ![s] = t],
                     waker_page_refs |-> InsertPages(group.waker_page_refs, s)]
        /\ gret' = Called("insert", id, "Some")
    /\ UNCHANGED <<gtick, ghist, schedVars, pollVars, histVars, queueVars>>

\* TaskGroup::remove(task_id), for any id a caller passes.  ids.remove()
\* of an id that is not in the map gives None, and the expect panics.
GroupRemove ==
    /\ gret.val # "panic"
    /\ \E id \in Ids :
        IF id \notin DOMAIN group.ids
        THEN /\ gret' = Called("remove", id, "panic")
             /\ UNCHANGED <<group, ghist>>
        ELSE LET s == group.ids[id]
                 p == PageOf(s)
             IN  IF ~GroupOccupied(s)
                 THEN /\ group' = [group EXCEPT !.ids = Without(@, id)]
                      /\ gret' = Called("remove", id, "None")
                      /\ UNCHANGED ghist
                 ELSE /\ group' =
                           [ids |-> Without(group.ids, id),
                            tasks |-> [group.tasks EXCEPT ![s] = NoTask],
                            waker_page_refs |->
                                [group.waker_page_refs EXCEPT
                                    ![p + 1] = PageClear(@, BitOf(s))]]
                      /\ gret' = Called("remove", id, "Some")
                      /\ ghist' = [ghist EXCEPT !.due = @ \ {s}, !.woken = @ \ {s}]
    /\ UNCHANGED <<gtick, schedVars, pollVars, histVars, queueVars>>

\* has_completed(task_id): None for an id that is not in the map or whose
\* slot is vacant.
has_completed(id) ==
    IF id \notin DOMAIN group.ids THEN "None"
    ELSE IF ~GroupOccupied(group.ids[id]) THEN "None"
    ELSE IF BitOf(group.ids[id]) \in GroupPage(PageOf(group.ids[id])).completed
         THEN "Some(true)" ELSE "Some(false)"

\* TaskGroup::has_completed(task_id), for any id a caller passes.
GroupHasCompleted ==
    /\ gret.val # "panic"
    /\ \E id \in Ids : gret' = Called("has_completed", id, has_completed(id))
    /\ UNCHANGED <<group, gtick, ghist, schedVars, pollVars, histVars, queueVars>>

\* The slots of the notified bits of pages i.. in order, and the pages with
\* these masks taken.
RECURSIVE Ascending(_)
Ascending(S) == IF S = {} THEN << >> ELSE <<Min(S)>> \o Ascending(S \ {Min(S)})

RECURSIVE ReadyFrom(_, _)
ReadyFrom(ps, i) ==
    IF i >= Len(ps) THEN << >>
    ELSE Ascending({SlotOf(i, b) : b \in ps[i + 1].notified}) \o ReadyFrom(ps, i + 1)

\* get_offsets_for_ready_tasks(): take_notified on every page; the wakes
\* that tasks delivered to each other are now with the caller.
GetOffsetsForReadyTasks ==
    /\ gret' = [Called("get_offsets_for_ready_tasks", 0, "Vec") EXCEPT
                   !.ready = ReadyFrom(group.waker_page_refs, 0)]
    /\ group' = [group EXCEPT !.waker_page_refs =
                    [i \in DOMAIN @ |-> [@[i] EXCEPT !.notified = {}]]]
    /\ ghist' = [ghist EXCEPT !.due = {}, !.woken = {}]

\* TaskGroup::get_offsets_for_ready_tasks().
GroupGetOffsets ==
    /\ gret.val # "panic"
    /\ GetOffsetsForReadyTasks
    /\ UNCHANGED <<gtick, schedVars, pollVars, histVars, queueVars>>

\* wake on the Waker of every slot of B.
WakeAll(ps, B) ==
    [i \in DOMAIN ps |->
        [ps[i] EXCEPT !.notified = @ \cup {BitOf(b) : b \in {x \in B : PageOf(x) = i - 1}}]]

\* poll_notified_task(s): None when the slot is vacant; else the task is
\* polled once and Ready marks the slot completed.  While it is polled the
\* task invokes the Wakers of the slots of B; r is what its poll returns.
PollNotifiedTask(s, r, B) ==
    IF ~GroupOccupied(s)
    THEN /\ gret' = Called("poll_notified_task", s, "None")
         /\ UNCHANGED <<group, ghist>>
    ELSE LET t == group.tasks[s]
             ps == WakeAll(group.waker_page_refs, B)
         IN  /\ group' =
                   [group EXCEPT
                      !.tasks[s] = DummyAfterPoll(t),
                      !.waker_page_refs =
                          [ps EXCEPT ![PageOf(s) + 1] =
                              AfterPoll(@, BitOf(s), SelfWake(t), r)]]
             /\ gret' = Called("poll_notified_task", s,
                            IF r THEN "Some(true)" ELSE "Some(false)")
             /\ ghist' = [wakers |-> IF KeepsWaker(t) THEN ghist.wakers \cup {s}
                                     ELSE ghist.wakers,
                          due |-> ghist.due \cup (B \ {s}),
                          woken |-> IF r THEN (ghist.woken \cup B) \ {s}
                                    ELSE IF SelfWake(t) THEN ghist.woken \cup B \cup {s}
                                    ELSE ghist.woken \cup B]

\* The results of the task in slot s; a vacant slot is not polled.
GroupResults(s) == IF GroupOccupied(s) THEN Results(group.tasks[s]) ELSE {FALSE}

\* TaskGroup::poll_notified_task(pin_slab_index), for any index a caller
\* passes.
GroupPollNotifiedTask ==
    /\ gret.val # "panic"
    /\ \E s \in Slots : \E r \in GroupResults(s) : PollNotifiedTask(s, r, {})
    /\ UNCHANGED <<gtick, schedVars, pollVars, histVars, queueVars>>

\* A Waker that a task of the group kept is invoked from outside.
GroupWake ==
    /\ gret.val # "panic"
    /\ \E s \in ghist.wakers :
        /\ group' = [group EXCEPT !.waker_page_refs = WakeAll(@, {s})]
        /\ ghist' = [ghist EXCEPT !.woken = @ \cup {s}]
    /\ UNCHANGED <<gret, gtick, schedVars, pollVars, histVars, queueVars>>

\* A tick over the TaskGroup begins: get_offsets_for_ready_tasks() gives the
\* slots to poll.
GroupTickStart ==
    /\ gret.val # "panic"
    /\ ~gtick.on
    /\ GetOffsetsForReadyTasks
    /\ gtick' = [on |-> TRUE, ready |-> ReadyFrom(group.waker_page_refs, 0)]
    /\ UNCHANGED <<schedVars, pollVars, histVars, queueVars>>

\* The slots a task may wake while it is polled in slot s: none, or one
\* whose Waker was kept, its own among them.
WokenBy(s) == {{}} \cup {{b} : b \in {x \in ghist.wakers : GroupOccupied(x)}}

\* The tick polls the next slot of the list: poll_notified_task(slot).
GroupTickPoll ==
    /\ gret.val # "panic"
    /\ gtick.on
    /\ gtick.ready # << >>
    /\ \E r \in GroupResults(Head(gtick.ready)), B \in WokenBy(Head(gtick.ready)) :
        PollNotifiedTask(Head(gtick.ready), r, B)
    /\ gtick' = [gtick EXCEPT !.ready = Tail(@)]
    /\ UNCHANGED <<schedVars, pollVars, histVars, queueVars>>

\* The list is through: the tick is over.
GroupTickEnd ==
    /\ gtick.on
    /\ gtick.ready = << >>
    /\ gtick' = NoTick
    /\ UNCHANGED <<group, gret, ghist, schedVars, pollVars, histVars, queueVars>>

NextGroup ==
    \/ GroupInsert
    \/ GroupRemove
    \/ GroupHasCompleted
    \/ GroupGetOffsets
    \/ GroupPollNotifiedTask

SpecGroup == Init /\ [][NextGroup]_vars

\* The steps of a TaskGroup that is driven in ticks and whose tasks wake
\* each other while they are polled.
GroupTaskWakesTask ==
    \/ GroupInsert
    \/ GroupRemove
    \/ GroupWake
    \/ GroupTickStart
    \/ GroupTickPoll
    \/ GroupTickEnd

\* An application whose tasks wake each other, on a Scheduler or on a
\* TaskGroup: the one it uses is the one it inserted its first task into.
NextWakeOther ==
    \/ /\ gret = NoCall
       /\ TaskWakesTask
    \/ /\ pages = << >>
       /\ pc = "idle"
       /\ GroupTaskWakesTask

SpecWakeOther == Init /\ [][NextWakeOther]_vars

\* ------------------------------------------------- SocketStateMachine
States ==
    {"Unbound", "Bound", "Listening", "Connecting", "Connected", "Closing", "Closed"}
SocketOps ==
    {"Bind", "Listen", "Accept", "Connect", "Established", "Push", "Pop",
     "Close", "Closed"}

\* The operations that are legal in a state.
Allowed(S) ==
    CASE S = "Unbound"    -> {"Bind", "Connect", "Close"}
      [] S = "Bound"      -> {"Listen", "Connect", "Close"}
      [] S = "Listening"  -> {"Accept", "Close"}
      [] S = "Connecting" -> {"Established", "Closed", "Close"}
      [] S = "Connected"  -> {"Push", "Pop", "Close"}
      [] S = "Closing"    -> {"Closed"}
      [] OTHER            -> {}

\* The state an operation leads to; Accept, Push and Pop do not move.
PostState(S, op) ==
    CASE op = "Bind"        -> "Bound"
      [] op = "Listen"      -> "Listening"
      [] op = "Connect"     -> "Connecting"
      [] op = "Established" -> "Connected"
      [] op = "Close"       -> "Closing"
      [] op = "Closed"      -> "Closed"
      [] OTHER              -> S

\* Mutant of ErrnoOf: every rejection before close is EINVAL.
ErrnoOfWithoutConnectCases(S, op) ==
    IF S \in {"Closing", "Closed"} THEN "EBADF" ELSE "EINVAL"

\* The errno of a rejection: EBADF on a socket that is closing or closed,
\* EOPNOTSUPP for connect on a listening socket, EINPROGRESS for connect
\* on a connecting socket, EINVAL for any other illegal transition.
ErrnoOf(S, op) ==
    CASE S \in {"Closing", "Closed"}           -> "EBADF"
      [] op = "Connect" /\ S = "Listening"     -> "EOPNOTSUPP"
      [] op = "Connect" /\ S = "Connecting"    -> "EINPROGRESS"
      [] OTHER                                 -> "EINVAL"

new_unbound == [current |-> "Unbound", next |-> "none"]
new_established == [current |-> "Connected", next |-> "none"]

\* Mutant of prepare: a rejected operation is recorded as pending all the same.
prepare_records_rejected(sm, op) ==
    [sm |-> [sm EXCEPT !.next = PostState(sm.current, op)],
     res |-> IF op \in Allowed(sm.current)
             THEN OkUnit
             ELSE Fail(ErrnoOf(sm.current, op), "state machine")]

\* prepare(op): the transition is recorded as pending when op is legal in
\* the current state; otherwise the state machine is left as it is.
prepare(sm, op) ==
    IF op \in Allowed(sm.current)
    THEN [sm |-> [sm EXCEPT !.next = PostState(sm.current, op)], res |-> OkUnit]
    ELSE [sm |-> sm, res |-> Fail(ErrnoOf(sm.current, op), "state machine")]

\* Mutant of commit: the pending transition is cleared and not applied.
commit_drops_pending(sm) == [sm EXCEPT !.next = "none"]

\* commit(): the pending transition, if any, is applied and cleared.
commit(sm) ==
    IF sm.next = "none" THEN sm ELSE [current |-> sm.next, next |-> "none"]

\* Mutant of abort: the pending transition stays.
abort_keeps_pending(sm) == sm

\* abort(): the pending transition is discarded.
abort(sm) == [sm EXCEPT !.next = "none"]

\* The read-only checks.
may(sm, op) ==
    IF op \in Allowed(sm.current)
    THEN OkUnit
    ELSE Fail(ErrnoOf(sm.current, op), "state machine")
may_accept(sm) == may(sm, "Accept")
may_connect(sm) == may(sm, "Established")
\* Mutant of may_push: no check.
may_push_unchecked(sm) == OkUnit
may_push(sm) == may(sm, "Push")
may_pop(sm) == may(sm, "Pop")

\* ------------------------------------------------------- NetworkQueue
\* What the transport and a coroutine constructor may answer.
TransportErrnos == {"ECONNREFUSED", "EBADF"}
TransportResults == {OkUnit} \cup {Fail(e, "transport") : e \in TransportErrnos}
ConstructorResults == {OkToken(t) : t \in Tokens} \cup {Fail("EAGAIN", "constructor")}

\* A call's outcome: the queue after it, its result, the transport's answer.
Outcome(q, res, io) == [queue |-> q, res |-> res, io |-> io]
WithSm(q, sm) == [q EXCEPT !.state_machine = sm]

\* SharedNetworkQueue::new, given the transport's answer to socket().
new(typ, r, fd) ==
    IF r.ok
    THEN Outcome([qtype |-> IF typ = "STREAM" THEN "TcpSocket" ELSE "UdpSocket",
                  state_machine |-> new_unbound, socket |-> fd,
                  local |-> NoAddr, remote |-> NoAddr], OkUnit, r)
    ELSE Outcome(NoQueue, r, r)

\* Mutant of bind: no abort when the transport fails.
bind_without_abort(q, local, r) ==
    LET p == prepare(q.state_machine, "Bind")
    IN  IF ~p.res.ok THEN Outcome(q, p.res, NoResult)
        ELSE IF r.ok
             THEN Outcome([WithSm(q, commit(p.sm)) EXCEPT !.local = local], OkUnit, r)
             ELSE Outcome(WithSm(q, p.sm), r, r)

\* bind, given the transport's answer r to bind().
bind(q, local, r) ==
    LET p == prepare(q.state_machine, "Bind")
    IN  IF ~p.res.ok THEN Outcome(q, p.res, NoResult)
        ELSE IF r.ok
             THEN Outcome([WithSm(q, commit(p.sm)) EXCEPT !.local = local], OkUnit, r)
             ELSE Outcome(WithSm(q, abort(p.sm)), r, r)

\* listen, given the transport's answer r to listen().
listen(q, r) ==
    LET p == prepare(q.state_machine, "Listen")
    IN  IF ~p.res.ok THEN Outcome(q, p.res, NoResult)
        ELSE IF r.ok
             THEN Outcome(WithSm(q, commit(p.sm)), OkUnit, r)
             ELSE Outcome(WithSm(q, abort(p.sm)), r, r)

\* Mutant of do_generic_sync_control_path_call: commit whatever the
\* constructor answered.
do_generic_always_commit(q, sm, c) == Outcome(WithSm(q, commit(sm)), c, NoResult)

\* do_generic_sync_control_path_call on a state machine, given the
\* constructor's answer c.
do_generic_sync_control_path_call(q, sm, c) ==
    IF c.ok
    THEN Outcome(WithSm(q, commit(sm)), c, NoResult)
    ELSE Outcome(WithSm(q, abort(sm)), c, NoResult)

\* accept: may_accept, then the generic call with nothing prepared.
accept(q, c) ==
    LET m == may_accept(q.state_machine)
    IN  IF ~m.ok THEN Outcome(q, m, NoResult)
        ELSE do_generic_sync_control_path_call(q, q.state_machine, c)

\* connect and close: prepare, then the generic call.
prepared_call(q, op, c) ==
    LET p == prepare(q.state_machine, op)
    IN  IF ~p.res.ok THEN Outcome(q, p.res, NoResult)
        ELSE do_generic_sync_control_path_call(q, p.sm, c)
\* Mutant of connect: the generic call without prepare.
connect_without_prepare(q, c) ==
    do_generic_sync_control_path_call(q, q.state_machine, c)
connect(q, c) == prepared_call(q, "Connect", c)
close(q, c) == prepared_call(q, "Close", c)

\* Mutant of hard_close: Closed is not prepared after the transport's call.
hard_close_without_closed(q, r) ==
    LET p == prepare(q.state_machine, "Close")
    IN  IF ~p.res.ok THEN Outcome(q, p.res, NoResult)
        ELSE Outcome(WithSm(q, commit(p.sm)), r, r)

\* hard_close, given the transport's answer r to hard_close().
hard_close(q, r) ==
    LET p == prepare(q.state_machine, "Close")
        closing == commit(p.sm)
        p2 == prepare(closing, "Closed")
    IN  IF ~p.res.ok THEN Outcome(q, p.res, NoResult)
        ELSE IF ~r.ok THEN Outcome(WithSm(q, closing), r, r)
        ELSE IF ~p2.res.ok THEN Outcome(WithSm(q, p2.sm), p2.res, r)
        ELSE Outcome(WithSm(q, commit(p2.sm)), OkUnit, r)

\* push and pop: the check, then the constructor.
push(q, c) ==
    LET m == may_push(q.state_machine)
    IN  IF ~m.ok THEN Outcome(q, m, NoResult) ELSE Outcome(q, c, NoResult)
pop(q, c) ==
    LET m == may_pop(q.state_machine)
    IN  IF ~m.ok THEN Outcome(q, m, NoResult) ELSE Outcome(q, c, NoResult)

\* Mutant of connect_coroutine: the remote address is not recorded.
connect_coroutine_without_remote(q, remote, r) ==
    LET p == prepare(q.state_machine, IF r.ok THEN "Established" ELSE "Closed")
    IN  IF ~p.res.ok THEN Outcome(WithSm(q, p.sm), p.res, r)
        ELSE Outcome(WithSm(q, commit(p.sm)), IF r.ok THEN OkUnit ELSE r, r)

\* connect_coroutine from the transport's answer r on: prepare
\* Established (or Closed when the transport failed) with `?`, commit.
connect_coroutine(q, remote, r) ==
    LET p == prepare(q.state_machine, IF r.ok THEN "Established" ELSE "Closed")
    IN  IF ~p.res.ok THEN Outcome(WithSm(q, p.sm), p.res, r)
        ELSE IF r.ok
             THEN Outcome([WithSm(q, commit(p.sm)) EXCEPT !.remote = remote], OkUnit, r)
             ELSE Outcome(WithSm(q, commit(p.sm)), r, r)

\* Mutant of close_coroutine: Closed is prepared whatever the transport
\* answered.
close_coroutine_always_closed(q, r) ==
    LET p == prepare(q.state_machine, "Closed")
    IN  IF ~p.res.ok THEN Outcome(WithSm(q, p.sm), p.res, r)
        ELSE Outcome(WithSm(q, commit(p.sm)), r, r)

\* close_coroutine from the transport's answer r on.
close_coroutine(q, r) ==
    LET p == prepare(q.state_machine, "Closed")
    IN  IF ~r.ok THEN Outcome(q, r, r)
        ELSE IF ~p.res.ok THEN Outcome(WithSm(q, p.sm), p.res, r)
        ELSE Outcome(WithSm(q, commit(p.sm)), OkUnit, r)

\* Mutant of accepted_queue: the new queue takes its parent's state machine
\* and local address.
accepted_queue_as_parent(q, new_socket, saddr) ==
    [qtype |-> q.qtype, state_machine |-> q.state_machine, socket |-> new_socket,
     local |-> q.local, remote |-> saddr]

\* accept_coroutine from the transport's answer on: the queue it returns.
accepted_queue(q, new_socket, saddr) ==
    [qtype |-> q.qtype, state_machine |-> new_established, socket |-> new_socket,
     local |-> NoAddr, remote |-> saddr]
accept_coroutine(q, r) ==
    IF r.ok THEN Outcome(q, OkUnit, r)
    ELSE IF r.errno = "EBADF" THEN Outcome(q, Fail("EBADF", "socket was closed"), r)
    ELSE Outcome(q, r, r)

\* push_coroutine and pop_coroutine from the transport's answer on.
push_coroutine(q, r) == Outcome(q, r, r)
pop_coroutine(q, r) == Outcome(q, r, r)

Spawned(arg) == [NoCo EXCEPT !.pc = "spawned", !.arg = arg]
Spawn(kind, arg, res) ==
    IF res.ok THEN [co EXCEPT ![kind] = Spawned(arg)] ELSE co

\* The synchronous calls.
\* Descriptors are opaque: the transport gives the first socket the lowest.
QueueNew ==
    /\ queue = NoQueue
    /\ \E typ \in {"STREAM", "DGRAM"}, r \in TransportResults, fd \in {Min(Fds)} :
        LET o == new(typ, r, fd)
        IN  /\ queue' = o.queue
            /\ qret' = QCalled("new", 0, o.res, o.io)
    /\ UNCHANGED co
    /\ UNCHANGED <<schedVars, pollVars, histVars, groupVars>>

QueueBind ==
    /\ queue # NoQueue
    /\ \E local \in Addrs, r \in TransportResults :
        LET o == bind(queue, local, r)
        IN  /\ queue' = o.queue
            /\ qret' = QCalled("bind", local, o.res, o.io)
    /\ UNCHANGED co
    /\ UNCHANGED <<schedVars, pollVars, histVars, groupVars>>

QueueListen ==
    /\ queue # NoQueue
    /\ \E r \in TransportResults :
        LET o == listen(queue, r)
        IN  /\ queue' = o.queue
            /\ qret' = QCalled("listen", 0, o.res, o.io)
    /\ UNCHANGED co
    /\ UNCHANGED <<schedVars, pollVars, histVars, groupVars>>

\* A call that spawns a coroutine.  One coroutine of a kind is followed
\* at a time: accept, push and pop are not called again while their
\* coroutine is in flight, unless the state machine rejects the call.
\* connect and close reach their constructor once in the life of a queue.
SpawningCall(kind, arg, o) ==
    /\ queue' = o.queue
    /\ qret' = QCalled(kind, arg, o.res, o.io)
    /\ co' = Spawn(kind, arg, o.res)
    /\ UNCHANGED <<schedVars, pollVars, histVars, groupVars>>

QueueAccept ==
    /\ queue # NoQueue
    /\ co["accept"].pc \in {"none", "done"} \/ ~may_accept(queue.state_machine).ok
    /\ \E c \in ConstructorResults : SpawningCall("accept", NoAddr, accept(queue, c))

QueueConnect ==
    /\ queue # NoQueue
    /\ \E remote \in Addrs, c \in ConstructorResults :
        SpawningCall("connect", remote, connect(queue, c))

QueueClose ==
    /\ queue # NoQueue
    /\ \E c \in ConstructorResults : SpawningCall("close", NoAddr, close(queue, c))

QueuePush ==
    /\ queue # NoQueue
    /\ co["push"].pc \in {"none", "done"} \/ ~may_push(queue.state_machine).ok
    /\ \E c \in ConstructorResults : SpawningCall("push", NoAddr, push(queue, c))

QueuePop ==
    /\ queue # NoQueue
    /\ co["pop"].pc \in {"none", "done"} \/ ~may_pop(queue.state_machine).ok
    /\ \E c \in ConstructorResults : SpawningCall("pop", NoAddr, pop(queue, c))

QueueHardClose ==
    /\ queue # NoQueue
    /\ \E r \in TransportResults :
        LET o == hard_close(queue, r)
        IN  /\ queue' = o.queue
            /\ qret' = QCalled("hard_close", 0, o.res, o.io)
    /\ UNCHANGED co
    /\ UNCHANGED <<schedVars, pollVars, histVars, groupVars>>

\* The first poll of a coroutine: the check at its start, then the call of
\* the transport, in which it is suspended.
Start(kind, m) ==
    /\ co[kind].pc = "spawned"
    /\ co' = [co EXCEPT ![kind] =
                IF m.ok THEN [@ EXCEPT !.pc = "awaiting"]
                ELSE [@ EXCEPT !.pc = "done", !.res = m]]
    /\ UNCHANGED <<queue, qret>>
    /\ UNCHANGED <<schedVars, pollVars, histVars, groupVars>>

\* The poll of a coroutine after the transport has answered.
Finish(kind, o, out) ==
    /\ queue' = o.queue
    /\ co' = [co EXCEPT ![kind] =
                [@ EXCEPT !.pc = "done", !.io = o.io, !.res = o.res, !.out = out]]
    /\ UNCHANGED qret
    /\ UNCHANGED <<schedVars, pollVars, histVars, groupVars>>

AcceptCoroutineStart == Start("accept", may_accept(queue.state_machine))
ConnectCoroutineStart == Start("connect", may_connect(queue.state_machine))
CloseCoroutineStart == Start("close", OkUnit)
PushCoroutineStart == Start("push", may_push(queue.state_machine))
PopCoroutineStart == Start("pop", may_pop(queue.state_machine))

AcceptCoroutineFinish ==
    /\ co["accept"].pc = "awaiting"
    /\ \E r \in TransportResults, fd \in Fds \ {queue.socket}, saddr \in Addrs :
        Finish("accept", accept_coroutine(queue, r),
               IF r.ok THEN accepted_queue(queue, fd, saddr) ELSE NoQueue)

ConnectCoroutineFinish ==
    /\ co["connect"].pc = "awaiting"
    /\ \E r \in TransportResults :
        Finish("connect", connect_coroutine(queue, co["connect"].arg, r), NoQueue)

CloseCoroutineFinish ==
    /\ co["close"].pc = "awaiting"
    /\ \E r \in TransportResults :
        Finish("close", close_coroutine(queue, r), NoQueue)

PushCoroutineFinish ==
    /\ co["push"].pc = "awaiting"
    /\ \E r \in TransportResults :
        Finish("push", push_coroutine(queue, r), NoQueue)

PopCoroutineFinish ==
    /\ co["pop"].pc = "awaiting"
    /\ \E r \in TransportResults :
        Finish("pop", pop_coroutine(queue, r), NoQueue)

NextQueue ==
    \/ QueueNew
    \/ QueueBind
    \/ QueueListen
    \/ QueueAccept
    \/ QueueConnect
    \/ QueueClose
    \/ QueuePush
    \/ QueuePop
    \/ QueueHardClose
    \/ AcceptCoroutineStart
    \/ ConnectCoroutineStart
    \/ CloseCoroutineStart
    \/ PushCoroutineStart
    \/ PopCoroutineStart
    \/ AcceptCoroutineFinish
    \/ ConnectCoroutineFinish
    \/ CloseCoroutineFinish
    \/ PushCoroutineFinish
    \/ PopCoroutineFinish

SpecQueue == Init /\ [][NextQueue]_vars

\* The state machine of a queue on its own: prepare, commit, abort and the
\* checks applied in any order, each operation an input.
StateMachineCall(op, arg, sm, res) ==
    /\ queue # NoQueue
    /\ queue' = WithSm(queue, sm)
    /\ qret' = QCalled(op, arg, res, NoResult)
    /\ UNCHANGED co
    /\ UNCHANGED <<schedVars, pollVars, histVars, groupVars>>

SmPrepare ==
    \E op \in SocketOps :
        LET p == prepare(queue.state_machine, op)
        IN  StateMachineCall("prepare", op, p.sm, p.res)

\* The argument recorded for commit and abort is the pending transition
\* they found.
SmCommit ==
    StateMachineCall("commit", queue.state_machine.next,
                     commit(queue.state_machine), OkUnit)

SmAbort ==
    StateMachineCall("abort", queue.state_machine.next,
                     abort(queue.state_machine), OkUnit)

SmMay ==
    \E op \in {"Accept", "Established", "Push", "Pop"} :
        StateMachineCall("may", op, queue.state_machine, may(queue.state_machine, op))

NextStateMachine ==
    \/ QueueNew
    \/ SmPrepare
    \/ SmCommit
    \/ SmAbort
    \/ SmMay

SpecStateMachine == Init /\ [][NextStateMachine]_vars

\* ------------------------------------------------------------- claims
Range(f) == {f[i] : i \in DOMAIN f}
NotifiedBit(s) == BitOf(s) \in PageAt(PageOf(s)).notified
CompletedBit(s) == BitOf(s) \in PageAt(PageOf(s)).completed
DroppedBit(s) == BitOf(s) \in PageAt(PageOf(s)).dropped
\* The slot is in the taken mask of the page poll is at, not yet visited.
InTakenMask(s) ==
    /\ pc \in {"notified", "polling"}
    /\ PageOf(s) = page_ix
    /\ BitOf(s) \in notified

\* C1: the id insert returned for a task differs from the id of every other
\* task in the scheduler, and looking the id up in task_ids reaches the slot
\* of the task it was returned for, as long as that task is in the slab.
C1_IdReachesTask ==
    \A s \in Slots : Occupied(s) =>
        /\ \A r \in Slots : (Occupied(r) /\ r # s) => hist[r].id # hist[s].id
        /\ hist[s].id \in DOMAIN task_ids
        /\ task_ids[hist[s].id] = s

\* C2: every id of task_ids refers to an occupied slot of the slab, and
\* every occupied slot has its waker page (pages.len() * W > slot).
C2_MapAndPages ==
    /\ \A id \in DOMAIN task_ids : Occupied(task_ids[id])
    /\ \A s \in Slots : Occupied(s) => Len(pages) * W > s

\* C3: a task that is still in the scheduler when the first tick that began
\* after its insertion returns has been polled by then.
C3_PolledByFirstTick ==
    \A s \in Slots : (Occupied(s) /\ hist[s].ended >= 1) => hist[s].once

\* A task nobody wakes (no waker was ever handed out) has lived through one
\* tick and was polled.
C3_Witness ==
    /\ wakers = {}
    /\ \E s \in Slots : tasks[s] = Dummy(0) /\ hist[s].ended = 1 /\ hist[s].once

\* C4: a task that returns Ready on its first poll (DummyCoroutine with an
\* even val) has its completed bit set, so has_completed is true, once one
\* tick that began after its insertion has returned.
C4_ReadyAfterOneTick ==
    \A s \in Slots :
        (tasks[s] = Dummy(0) /\ hist[s].ended >= 1) => CompletedBit(s)

C4_Witness ==
    \E s \in Slots :
        tasks[s] = Dummy(0) /\ ~hist[s].mid /\ hist[s].ended = 1 /\ CompletedBit(s)

\* The task in slot s was inserted as DummyCoroutine with an odd val: it
\* wakes itself and returns Pending on its first poll, Ready on its second.
PendingThenReady(s) == tasks[s].kind = "dummy" /\ tasks[s].val \in {1, 2}

\* C5 as claimed: for every task that wakes itself and returns Pending and
\* then Ready, has_completed is false when the first tick that follows the
\* insertion has returned and true once the second has.
C5_TwoTicksAnyInsert ==
    \A s \in Slots : PendingThenReady(s) =>
        /\ (pc = "idle" /\ hist[s].ended = 1) => ~CompletedBit(s)
        /\ hist[s].ended >= 2 => CompletedBit(s)

\* C5 amended: the same for a task that was inserted while no tick was
\* running.
C5_TwoTicks ==
    \A s \in Slots : (PendingThenReady(s) /\ ~hist[s].mid) =>
        /\ (pc = "idle" /\ hist[s].ended = 1) => ~CompletedBit(s)
        /\ hist[s].ended >= 2 => CompletedBit(s)

C5_Witness ==
    \E s \in Slots :
        tasks[s] = Dummy(2) /\ ~hist[s].mid /\ hist[s].ended = 2 /\ CompletedBit(s)

\* C6: a wake is not lost.  When a task in the scheduler was woken after its
\* last poll began, and that poll has not returned Ready, then its notified
\* bit is set on its page or is in the taken mask poll is working through:
\* the task is polled again in this tick or in the next.  (A poll that has
\* panicked has ended the program: nothing is said of the state it leaves.)
C6_WakeNotLost ==
    pc # "panic" =>
        \A s \in Slots :
            (Occupied(s) /\ hist[s].owed) => (NotifiedBit(s) \/ InTakenMask(s))

\* A task that does not wake itself was woken while it was being polled, and
\* the poll returned Pending.
C6_Witness ==
    /\ pc = "notified"
    /\ polled # << >>
    /\ LET s == polled[Len(polled)]
       IN  tasks[s].kind = "io" /\ hist[s].owed /\ NotifiedBit(s)

\* C7 as claimed: a slot that wake was invoked on since the last
\* take_notified of its page has its notified bit set when the next
\* take_notified of the page reads the mask.
C7_WakesReported ==
    \A s \in Slots :
        (/\ pc = "loop"
         /\ page_ix < poll_len
         /\ PageOf(s) = page_ix
         /\ woken[s] \in {"yes", "cleared"}) => NotifiedBit(s)

\* C7 amended: the notified bit of a slot is set exactly when the slot was
\* woken or initialized since the last take_notified of its page and
\* neither mark_completed nor clear was called on it after that.  So a take
\* reports the wakes before it, whatever their number, and the take after
\* it reports the slot only after a further wake or initialize.
C7_WakesObservedOnce ==
    \A s \in Slots :
        PageOf(s) < Len(pages) =>
            (NotifiedBit(s) <=> woken[s] \in {"yes", "init"})

\* A take has just reported a task that was polled before and does not wake
\* itself: it was woken through its waker.
C7_Witness ==
    /\ pc = "notified"
    /\ \E s \in Slots :
        /\ tasks[s].kind = "io"
        /\ hist[s].once
        /\ InTakenMask(s)
        /\ woken[s] = "no"
        /\ ~NotifiedBit(s)

\* C8: every slot whose notified bit a take of this tick read has been
\* polled in this tick, or is still in the taken mask of the page poll is
\* working through; when the loop is over all of them have been polled.
\* (A tick that panics on its unwrap does not go on: nothing is said of it.)
C8_TakenArePolled ==
    pc # "panic" =>
        taken \subseteq (Range(polled) \cup {s \in Slots : InTakenMask(s)})

C8_Witness ==
    /\ pc = "loop"
    /\ page_ix = poll_len
    /\ Cardinality(taken) = 2
    /\ taken \subseteq Range(polled)

\* The task in slot s woke itself in its first poll, which returned Pending,
\* and its second poll has not begun or has not returned Ready.
SelfWoken(s) == tasks[s] = Dummy(2) /\ ~CompletedBit(s) /\ cur # s

\* C9: no slot is polled twice in one tick; a task that woke itself during
\* its poll is not in the taken mask of this tick any more, and its notified
\* bit stays set on its page for the take of the next tick.
C9_SelfWakeNextTick ==
    /\ \A i, j \in DOMAIN polled : i # j => polled[i] # polled[j]
    /\ pc # "panic" =>
        \A s \in Slots : SelfWoken(s) =>
            IF s \in Range(polled)
            THEN NotifiedBit(s) /\ ~InTakenMask(s)
            ELSE NotifiedBit(s) \/ InTakenMask(s)

C9_Witness ==
    /\ pc = "loop"
    /\ page_ix = poll_len
    /\ \E s \in Slots : SelfWoken(s) /\ s \in Range(polled) /\ NotifiedBit(s)

\* C10: within a tick the slots are polled in strictly increasing order:
\* by page, and within a page by bit offset.
C10_PollOrder ==
    \A i, j \in DOMAIN polled : i < j => polled[i] < polled[j]

\* Two tasks of one page were polled in this tick.
C10_Witness ==
    /\ Len(polled) = 2
    /\ PageOf(polled[1]) = PageOf(polled[2])

\* C11: the TaskGroup API does not abort.  A remove or has_completed of
\* an id that is not in the group, and a poll_notified_task of a slot that
\* holds no task, return None and leave the group as it was.
C11_GroupInfallible ==
    [][/\ (GroupRemove /\ gret'.op = "remove" /\ gret'.arg \notin DOMAIN group.ids)
            => (gret'.val = "None" /\ group' = group)
       /\ (GroupHasCompleted /\ gret'.arg \notin DOMAIN group.ids)
            => (gret'.val = "None" /\ group' = group)
       /\ (GroupPollNotifiedTask /\ ~GroupOccupied(gret'.arg))
            => (gret'.val = "None" /\ group' = group)]_vars

\* C12: cancellation removes the task.  After a take that returns, and
\* after the step of poll that handles the dropped mask of a page, the slot
\* of every cancelled task holds no task and its notified, completed and
\* dropped bits are clear; this for every slot, bit offset 0 included.
Cancelled(s) ==
    /\ tasks'[s] = NoTask
    /\ ~NotifiedBit(s)'
    /\ ~CompletedBit(s)'
    /\ ~DroppedBit(s)'

C12_CancelRemoves ==
    [][/\ (Take /\ pc' = "idle")
            => \A s \in Slots : (tasks'[s] # tasks[s]) => Cancelled(s)
       /\ HandleDropped
            => \A b \in dropped :
                 \A s \in {SlotOf(page_ix, b)} : Cancelled(s)]_vars

\* C13: of the first two insertions of a run, the second id is not the
\* first id plus one.
C13_IdsNotAdjacent ==
    [][(Insert /\ Cardinality(DOMAIN task_ids) = 1
               /\ Cardinality(DOMAIN task_ids') = 2)
         => \A a \in DOMAIN task_ids, b \in DOMAIN task_ids' \ DOMAIN task_ids :
                b # a + 1]_vars

\* The error kinds of a state machine rejection.
PreconditionViolation == {"EINVAL", "EOPNOTSUPP", "EINPROGRESS"}
\* The operations the design lists as legal in a state.
AllowedSet(S) ==
    CASE S = "Unbound"    -> {"Bind", "Connect", "Close"}
      [] S = "Bound"      -> {"Listen", "Connect", "Close"}
      [] S = "Listening"  -> {"Accept", "Close"}
      [] S = "Connecting" -> {"Established", "Closed", "Close"}
      [] S = "Connected"  -> {"Push", "Pop", "Close"}
      [] S = "Closing"    -> {"Closed"}
      [] S = "Closed"     -> {}
\* The canonical state after an operation.
Canonical(op, S) ==
    CASE op = "Bind"        -> "Bound"
      [] op = "Listen"      -> "Listening"
      [] op = "Connect"     -> "Connecting"
      [] op = "Established" -> "Connected"
      [] op = "Close"       -> "Closing"
      [] op = "Closed"      -> "Closed"
      [] OTHER              -> S
\* The step is a prepare of an operation that is not legal in the state.
IllegalPrepare ==
    /\ SmPrepare
    /\ qret'.arg \notin AllowedSet(queue.state_machine.current)

\* C14 (as stated): in every state S, prepare of an operation that is not
\* in the allowed set of S fails with a precondition violation (EINVAL,
\* EOPNOTSUPP or EINPROGRESS; EINVAL for Bind in Bound), and the state
\* machine is left as it was: the state is S and nothing is recorded.
C14_RejectedAsPrecondition ==
    [][IllegalPrepare =>
         /\ ~qret'.res.ok
         /\ qret'.res.errno \in PreconditionViolation
         /\ queue'.state_machine = queue.state_machine]_vars

\* C14 (amended): as above, but the error of a rejection in Closing or
\* Closed is EBADF; in every other state it is a precondition violation,
\* EINVAL for Bind in Bound.
C14_Rejected ==
    [][IllegalPrepare =>
         /\ ~qret'.res.ok
         /\ IF queue.state_machine.current \in {"Closing", "Closed"}
            THEN qret'.res.errno = "EBADF"
            ELSE qret'.res.errno \in PreconditionViolation
         /\ (qret'.arg = "Bind" /\ queue.state_machine.current = "Bound")
               => qret'.res.errno = "EINVAL"
         /\ queue'.state_machine = queue.state_machine]_vars

\* A Bind was rejected in Bound with EINVAL and nothing is pending.
C14_Witness ==
    /\ qret.op = "prepare"
    /\ qret.arg = "Bind"
    /\ qret.res.errno = "EINVAL"
    /\ queue.state_machine = [current |-> "Bound", next |-> "none"]

\* C15: prepare of an operation that is legal in S does not change the
\* current state, and the abort that follows leaves the state S with
\* nothing pending, so that every operation legal in S is then prepared as
\* from S itself.
C15_PrepareAbort ==
    [][/\ SmPrepare => queue'.state_machine.current = queue.state_machine.current
       /\ (SmAbort /\ qret.op = "prepare" /\ qret.res.ok)
            => /\ queue'.state_machine =
                    [current |-> queue.state_machine.current, next |-> "none"]
               /\ \A op \in AllowedSet(queue.state_machine.current) :
                    LET again == prepare(queue'.state_machine, op)
                    IN  /\ again.res.ok
                        /\ again.sm.current = queue.state_machine.current
                        /\ again.sm.next = Canonical(op, queue.state_machine.current)]_vars

\* An abort has discarded the Bound that a Bind in Unbound had prepared.
C15_Witness ==
    /\ qret.op = "abort"
    /\ qret.arg = "Bound"
    /\ queue.state_machine = [current |-> "Unbound", next |-> "none"]

\* C16: prepare of an operation that is legal in S followed by commit
\* leaves the canonical state of the operation (Bind: Bound, Listen:
\* Listening, Connect: Connecting, Established: Connected, Close: Closing,
\* Closed: Closed) with nothing pending.
C16_PrepareCommit ==
    [][(SmCommit /\ qret.op = "prepare" /\ qret.res.ok)
         => queue'.state_machine =
              [current |-> Canonical(qret.arg, queue.state_machine.current),
               next |-> "none"]]_vars

\* A commit has applied the Connected that an Established had prepared.
C16_Witness ==
    /\ qret.op = "commit"
    /\ qret.arg = "Connected"
    /\ queue.state_machine = [current |-> "Connected", next |-> "none"]

\* The transport was called and answered with an error.
TransportFailed(r) == ~r.ok /\ r.cause = "transport"

\* C17: when the transport's bind or listen fails, bind and listen return
\* the transport's error, the queue (its state, its pending transition,
\* its local address) is as before the call, and the same call made again
\* succeeds when the transport then succeeds.
C17_TransportFailure ==
    [][/\ (QueueBind /\ TransportFailed(qret'.io))
            => /\ qret'.res = qret'.io
               /\ queue' = queue
               /\ bind(queue', qret'.arg, OkUnit).res.ok
       /\ (QueueListen /\ TransportFailed(qret'.io))
            => /\ qret'.res = qret'.io
               /\ queue' = queue
               /\ listen(queue', OkUnit).res.ok]_vars

\* The transport has failed a bind on an unbound queue.
C17_Witness ==
    /\ qret.op = "bind"
    /\ TransportFailed(qret.io)
    /\ queue.state_machine = [current |-> "Unbound", next |-> "none"]
    /\ queue.local = NoAddr

\* C18: connect and close return what the coroutine constructor returned.
\* When it failed, the queue is as before the call and no coroutine was
\* spawned; when it gave a token, the state is Connecting (connect) or
\* Closing (close) with nothing pending.
C18_ConstructorOutcome ==
    [][/\ (QueueConnect \/ QueueClose)
            => (qret'.res.cause # "state machine" => qret'.res \in ConstructorResults)
       /\ ((QueueConnect \/ QueueClose) /\ qret'.res.cause = "constructor")
            => (~qret'.res.ok /\ queue' = queue /\ co' = co)
       /\ (QueueConnect /\ qret'.res.ok)
            => /\ qret'.res.qt \in Tokens
               /\ queue'.state_machine = [current |-> "Connecting", next |-> "none"]
               /\ co'["connect"].pc = "spawned"
       /\ (QueueClose /\ qret'.res.ok)
            => /\ qret'.res.qt \in Tokens
               /\ queue'.state_machine = [current |-> "Closing", next |-> "none"]
               /\ co'["close"].pc = "spawned"]_vars

\* The constructor has failed a connect on a bound queue.
C18_Witness ==
    /\ qret.op = "connect"
    /\ qret.res.cause = "constructor"
    /\ queue.state_machine = [current |-> "Bound", next |-> "none"]
    /\ co["connect"].pc = "none"

\* C19: when the transport's connect fails inside connect_coroutine, the
\* queue ends in Closed and the coroutine returns the transport's error,
\* whatever was called on the queue while the connect was suspended.
C19_FailedConnectCloses ==
    [][(ConnectCoroutineFinish /\ TransportFailed(co'["connect"].io))
         => /\ queue'.state_machine.current = "Closed"
            /\ co'["connect"].res = co'["connect"].io]_vars

\* C20: when connect succeeded, nothing else was called on the queue since,
\* and the transport's connect succeeds, connect_coroutine returns Ok, the
\* state is Connected and remote is the address connected to.
C20_ConnectEstablishes ==
    [][(/\ ConnectCoroutineFinish
        /\ co'["connect"].io.ok
        /\ qret.op = "connect"
        /\ qret.res.ok)
         => /\ co'["connect"].res = OkUnit
            /\ queue'.state_machine = [current |-> "Connected", next |-> "none"]
            /\ queue'.remote = qret.arg
            /\ queue'.remote \in Addrs]_vars

\* The connect that was called last has completed and the queue is connected.
C20_Witness ==
    /\ qret.op = "connect"
    /\ qret.res.ok
    /\ co["connect"].pc = "done"
    /\ co["connect"].res = OkUnit
    /\ queue.state_machine.current = "Connected"
    /\ queue.remote = qret.arg

RejectedWith(errno) ==
    /\ ~qret'.res.ok
    /\ qret'.res.errno = errno
    /\ queue' = queue
    /\ co' = co

\* C22: connect on a Listening queue, with or without an accept in flight,
\* fails with EOPNOTSUPP, spawns no coroutine and leaves the queue
\* Listening; accept, which commits with nothing prepared, leaves the
\* queue Listening too.
C22_ConnectOnListening ==
    [][/\ (QueueConnect /\ queue.state_machine.current = "Listening")
            => RejectedWith("EOPNOTSUPP")
       /\ (QueueAccept /\ queue.state_machine.current = "Listening")
            => /\ queue' = queue
               /\ queue'.state_machine = [current |-> "Listening", next |-> "none"]]_vars

\* A connect was rejected while an accept is suspended in the transport.
C22_Witness ==
    /\ qret.op = "connect"
    /\ qret.res.errno = "EOPNOTSUPP"
    /\ co["accept"].pc = "awaiting"
    /\ co["connect"].pc = "none"
    /\ queue.state_machine = [current |-> "Listening", next |-> "none"]

\* C23: connect on a queue whose connect is in progress (Connecting) fails
\* with EINPROGRESS, spawns no second coroutine and leaves the state
\* Connecting; close is then accepted when its constructor succeeds.
C23_ConnectOnConnecting ==
    [][(QueueConnect /\ queue.state_machine.current = "Connecting")
         => /\ RejectedWith("EINPROGRESS")
            /\ queue'.state_machine = [current |-> "Connecting", next |-> "none"]
            /\ \A c \in ConstructorResults :
                 c.ok => /\ close(queue', c).res = c
                         /\ close(queue', c).queue.state_machine.current = "Closing"]_vars

\* A second connect was rejected while the first is suspended.
C23_Witness ==
    /\ qret.op = "connect"
    /\ qret.res.errno = "EINPROGRESS"
    /\ co["connect"].pc = "awaiting"
    /\ queue.state_machine = [current |-> "Connecting", next |-> "none"]

\* C24: once close has been accepted (the state is Closing or Closed),
\* every connect fails with EBADF and spawns no coroutine.
C24_ConnectAfterClose ==
    [][(QueueConnect /\ queue.state_machine.current \in {"Closing", "Closed"})
         => RejectedWith("EBADF")]_vars

\* A connect was rejected after close was accepted and has completed.
C24_Witness ==
    /\ qret.op = "connect"
    /\ qret.res.errno = "EBADF"
    /\ co["close"].pc = "done"
    /\ co["close"].res = OkUnit
    /\ queue.state_machine.current = "Closed"

\* C25: hard_close in Unbound, Bound, Listening, Connecting or Connected,
\* with the transport's hard_close succeeding, returns Ok and leaves the
\* queue Closed; in Closing or Closed it fails without calling the
\* transport.
C25_HardClose ==
    [][/\ (/\ QueueHardClose
           /\ queue.state_machine.current \in
                {"Unbound", "Bound", "Listening", "Connecting", "Connected"})
            => /\ qret'.io # NoResult
               /\ qret'.io.ok =>
                    /\ qret'.res = OkUnit
                    /\ queue'.state_machine = [current |-> "Closed", next |-> "none"]
       /\ (QueueHardClose /\ queue.state_machine.current \in {"Closing", "Closed"})
            => /\ ~qret'.res.ok
               /\ qret'.io = NoResult
               /\ queue' = queue]_vars

\* A hard_close has closed the queue while its connect is suspended.
C25_Witness ==
    /\ qret.op = "hard_close"
    /\ qret.res = OkUnit
    /\ co["connect"].pc = "awaiting"
    /\ queue.state_machine = [current |-> "Closed", next |-> "none"]

\* A synchronous call on the queue.
SyncCall ==
    \/ QueueBind
    \/ QueueListen
    \/ QueueAccept
    \/ QueueConnect
    \/ QueuePush
    \/ QueuePop
    \/ QueueClose
    \/ QueueHardClose

\* C26: Closed is terminal.  Once the state is Closed, no call on the queue
\* and no completion of a coroutine changes the state machine, and every
\* synchronous call fails.
C26_ClosedIsTerminal ==
    [][queue.state_machine.current = "Closed"
         => /\ queue'.state_machine = [current |-> "Closed", next |-> "none"]
            /\ SyncCall => ~qret'.res.ok]_vars

\* A bind has been refused on a closed queue.
C26_Witness ==
    /\ qret.op = "bind"
    /\ ~qret.res.ok
    /\ qret.res.cause = "state machine"
    /\ queue.state_machine = [current |-> "Closed", next |-> "none"]

\* The task in slot s is a DummyCoroutine that was inserted while no tick
\* was running: it returns Ready on its first poll, or wakes itself,
\* returns Pending and then returns Ready.
ReadyWithinTwoPolls(s) == tasks[s].kind = "dummy" /\ ~hist[s].mid

\* C27: when every task of the scheduler returns Ready on its first poll,
\* or wakes itself, returns Pending once and then returns Ready, and two
\* ticks that began after the insertion of each have returned, every task
\* is completed, whatever pages the tasks are on.
C27_AllCompletedAfterTwoTicks ==
    (\A s \in Slots : Occupied(s) => (ReadyWithinTwoPolls(s) /\ hist[s].ended >= 2))
        => \A s \in Slots : Occupied(s) => CompletedBit(s)

\* Tasks of both kinds on two pages have lived through two ticks and are
\* completed.
C27_Witness ==
    /\ pc = "idle"
    /\ \A s \in Slots : Occupied(s) => (ReadyWithinTwoPolls(s) /\ hist[s].ended >= 2)
    /\ \E s, t \in Slots :
        /\ PageOf(s) # PageOf(t)
        /\ tasks[s] = Dummy(0)
        /\ tasks[t] = Dummy(2)
        /\ CompletedBit(s)
        /\ CompletedBit(t)


\* The slots of a tick's list.
ReadySlots(l) == {l[i] : i \in DOMAIN l}

\* The completed bit of a slot of the TaskGroup.
GroupCompletedBit(s) == BitOf(s) \in GroupPage(PageOf(s)).completed

\* C28, as stated: when Scheduler::poll returns, every task that was woken
\* by a task polled in this tick, on a page whose masks were still to take,
\* has been polled since in this tick, and every task that was so woken in
\* the tick before, on a page whose masks were taken, has been polled in
\* this tick; a task that was woken by a polled task of a TaskGroup is in
\* the list of the next get_offsets_for_ready_tasks.
C28_AsStated ==
    [][/\ PollReturn => \A s \in Slots : Occupied(s) => due[s] \notin {"ahead", "next"}
       /\ GroupTickStart =>
            \A s \in ghist.due : GroupOccupied(s) => s \in ReadySlots(gtick'.ready)]_vars

\* C28: a wake that a polled task delivers to another task is observed in
\* the same tick of Scheduler::poll when the page of the woken task has not
\* had its masks taken, and in the next tick otherwise; in a TaskGroup it is
\* in the list of the next tick.  A woken task that returned Ready in
\* between is completed and is not polled for that wake.
C28_WakeObserved ==
    [][/\ PollReturn =>
            \A s \in Slots : Occupied(s) =>
                /\ due[s] # "ahead"
                /\ due[s] = "next" => CompletedBit(s)
       /\ GroupTickStart =>
            \A s \in ghist.due : GroupOccupied(s) =>
                s \in ReadySlots(gtick'.ready) \/ GroupCompletedBit(s)]_vars

\* Two tasks of the scheduler were woken by a polled task, one was polled
\* in the tick of the wake and the other in the tick after.
C28_Witness ==
    \E s, t \in Slots :
        /\ Occupied(s)
        /\ Occupied(t)
        /\ due[s] = "same"
        /\ due[t] = "later"
        /\ pc = "idle"

\* The notified bit of a slot of the TaskGroup.
GroupNotifiedBit(s) == BitOf(s) \in GroupPage(PageOf(s)).notified

\* C29: when a poll returns Ready the completed bit of the slot is set and
\* its notified bit is clear, whatever wake the slot got during that poll;
\* the completed bit (has_completed of the id) then stays set as long as the
\* task is not removed; and a completed task is polled by Scheduler::poll,
\* or listed by get_offsets_for_ready_tasks, only when it was woken since.
C29_ReadyCompletes ==
    [][/\ PollEndReturning(TRUE) =>
            \A s \in {cur} : CompletedBit(s)' /\ ~NotifiedBit(s)'
       /\ \A s \in Slots :
            (Occupied(s) /\ CompletedBit(s) /\ Occupied(s)') => CompletedBit(s)'
       /\ TakePage =>
            \A s \in {SlotOf(page_ix, b) : b \in PageAt(page_ix).notified} :
                (Occupied(s) /\ CompletedBit(s)) => woken[s] = "yes"
       /\ (GroupTickPoll /\ gret'.val = "Some(true)") =>
            \A s \in {gret'.arg} : GroupCompletedBit(s)' /\ ~GroupNotifiedBit(s)'
       /\ \A id \in Ids :
            (has_completed(id) = "Some(true)" /\ id \in DOMAIN group'.ids)
                => has_completed(id)' = "Some(true)"
       /\ GroupTickStart =>
            \A s \in ReadySlots(gtick'.ready) :
                (GroupOccupied(s) /\ GroupCompletedBit(s)) => s \in ghist.woken]_vars

\* The poll of a task that was woken while it was polled has just returned
\* Ready: the slot is completed and the wake is gone.
C29_Witness ==
    /\ pc = "notified"
    /\ polled # << >>
    /\ \E s \in {polled[Len(polled)]} :
        /\ Occupied(s)
        /\ woken[s] = "cleared"
        /\ CompletedBit(s)
        /\ ~NotifiedBit(s)

\* C30: the slot that insert gives a task, on the Scheduler and on the
\* TaskGroup, starts with notified set and completed and dropped clear,
\* whatever bits it had before; and the completed bit of a task (has_completed
\* of its id) turns true only when a poll of that task returns Ready.
C30_ReusedSlotStartsClean ==
    [][/\ \A s \in Slots : (~Occupied(s) /\ Occupied(s)') =>
            NotifiedBit(s)' /\ ~CompletedBit(s)' /\ ~DroppedBit(s)'
       /\ \A s \in Slots :
            (Occupied(s) /\ ~CompletedBit(s) /\ Occupied(s)' /\ CompletedBit(s)')
                => (PollEndReturning(TRUE) /\ cur = s)
       /\ \A s \in Slots : (~GroupOccupied(s) /\ GroupOccupied(s)') =>
            /\ GroupNotifiedBit(s)'
            /\ ~GroupCompletedBit(s)'
            /\ BitOf(s) \notin GroupPage(PageOf(s))'.dropped
            /\ \A id \in {gret'.arg} : has_completed(id)' = "Some(false)"
       /\ \A id \in Ids :
            (has_completed(id) = "Some(false)" /\ has_completed(id)' = "Some(true)")
                => /\ GroupTickPoll
                   /\ gret'.arg = group.ids[id]
                   /\ gret'.val = "Some(true)"]_vars

\* A task was taken from the scheduler, the Waker of its slot was invoked
\* and its handle dropped after that, and the slot now holds a task that was
\* inserted later and not polled yet.
C30_Witness ==
    \E s \in Slots, h \in handles :
        /\ Occupied(s)
        /\ h.offset = s
        /\ h.id # hist[s].id
        /\ s \in wakers
        /\ ~hist[s].once
        /\ NotifiedBit(s)
        /\ ~CompletedBit(s)
        /\ ~DroppedBit(s)

\* C31: push() and pop() return Ok only on a Connected queue; they and the
\* polls of push_coroutine and pop_coroutine leave the queue (state, pending
\* transition, local, remote) as it was; and a push or pop coroutine that
\* starts on a queue that is not Connected finishes with the state machine's
\* error, the transport not called.
C31_PushPopFrame ==
    [][/\ (QueuePush \/ QueuePop) =>
            /\ queue' = queue
            /\ qret'.res.ok => queue.state_machine.current = "Connected"
       /\ (PushCoroutineStart \/ PopCoroutineStart
             \/ PushCoroutineFinish \/ PopCoroutineFinish) => queue' = queue
       /\ \A k \in {"push", "pop"} :
            (/\ co[k].pc = "spawned"
             /\ co'[k].pc # "spawned"
             /\ queue.state_machine.current # "Connected")
                => /\ co'[k].pc = "done"
                   /\ ~co'[k].res.ok
                   /\ co'[k].res.cause = "state machine"
                   /\ co'[k].io = NoResult]_vars

\* close() was accepted after a push was spawned, and the push coroutine
\* has ended at its check; a pop coroutine has ended with the transport's
\* answer.
C31_Witness ==
    /\ queue.state_machine.current = "Closing"
    /\ co["push"].pc = "done"
    /\ ~co["push"].res.ok
    /\ co["push"].res.cause = "state machine"
    /\ co["push"].io = NoResult
    /\ co["pop"].pc = "done"
    /\ co["pop"].io.ok

\* The transport's close has failed: in close_coroutine, or in the
\* hard_close that was the last call on the queue.
FailedClose ==
    \/ co["close"].pc = "done" /\ TransportFailed(co["close"].io)
    \/ qret.op = "hard_close" /\ TransportFailed(qret.io)

\* What C32 says of the failure itself: close_coroutine and hard_close
\* return the transport's error; close_coroutine leaves the queue as it
\* was and hard_close leaves it in Closing.
FailedCloseReturns ==
    /\ (CloseCoroutineFinish /\ TransportFailed(co'["close"].io)) =>
            /\ co'["close"].res = co'["close"].io
            /\ queue' = queue
    /\ (QueueHardClose /\ TransportFailed(qret'.io)) =>
            /\ qret'.res = qret'.io
            /\ queue'.state_machine = [current |-> "Closing", next |-> "none"]

\* C32, as stated: after the transport's close has failed the queue in
\* Closing does not reach Closed.
C32_AsStated ==
    [][/\ FailedCloseReturns
       /\ (FailedClose /\ queue.state_machine.current = "Closing")
            => queue'.state_machine.current # "Closed"]_vars

\* C32: close_coroutine and hard_close return the transport's error and
\* do not move the queue on from Closing; after such a failure the queue
\* reaches Closed only when a connect_coroutine that was in flight ends
\* with an error of the transport, and through no call of the queue.
C32_FailedCloseStaysClosing ==
    [][/\ FailedCloseReturns
       /\ (/\ FailedClose
           /\ queue.state_machine.current = "Closing"
           /\ queue'.state_machine.current # "Closing")
            => /\ queue'.state_machine.current = "Closed"
               /\ ConnectCoroutineFinish
               /\ TransportFailed(co'["connect"].io)
       /\ (SyncCall /\ queue.state_machine.current = "Closing") =>
            /\ ~qret'.res.ok
            /\ queue' = queue]_vars

\* The transport's close has failed in close_coroutine, no coroutine is in
\* flight and the queue is in Closing.
C32_Witness ==
    /\ co["close"].pc = "done"
    /\ TransportFailed(co["close"].io)
    /\ co["close"].res = co["close"].io
    /\ queue.state_machine.current = "Closing"
    /\ \A k \in Kinds : co[k].pc \in {"none", "done"}

\* C33: when a poll can start, every slot whose notified bit is set is
\* occupied in the slab.
C33_NotifiedAreOccupied ==
    pc = "idle" =>
        \A s \in Slots :
            (PageOf(s) < Len(pages) /\ NotifiedBit(s)) => Occupied(s)

\* C34: whenever from_raw_handle(id) gives a handle, the slot of the handle
\* holds the task that was inserted under id.
C34_HandleOfInsertedTask ==
    pc = "idle" =>
        \A id \in Ids :
            from_raw_handle(id) # NoHandle =>
                hist[from_raw_handle(id).offset].id = id

\* C35: between the steps of the queue (a synchronous operation has
\* returned, a coroutine is suspended or has finished) the state machine
\* has no pending transition; so every step that changes the state commits
\* a transition it prepared itself.
C35_NoPendingOutstanding ==
    queue # NoQueue => queue.state_machine.next = "none"

\* connect_coroutine has finished and committed Established, close() was
\* then accepted and its coroutine is suspended in the transport's close.
C35_Witness ==
    /\ co["connect"].pc = "done"
    /\ co["connect"].res.ok
    /\ co["close"].pc = "awaiting"
    /\ qret.op = "close"
    /\ queue.state_machine = [current |-> "Closing", next |-> "none"]

\* ------------------------------------- Scheduler::poll and the tick
\* The same tasks are inserted into a Scheduler and into a TaskGroup, the
\* same task into the same slot and no task from within a poll, each of
\* them a DummyCoroutine (it wakes nothing but itself); between the inserts
\* one Scheduler::poll runs up to
\* its return, the TaskGroup is driven through one tick
\* (get_offsets_for_ready_tasks, then poll_notified_task on each slot of
\* the list), and then both return.
SchedulerAtEnd == pc = "loop" /\ page_ix = poll_len
GroupTickDone == gtick.on /\ gtick.ready = << >>

NextSameTick ==
    \/ /\ pc = "idle"
       /\ ~gtick.on
       /\ group.tasks = tasks
       /\ Insert
       /\ \A s \in Slots : tasks'[s].kind # "io"
    \/ /\ pc = "idle"
       /\ group.tasks # tasks
       /\ GroupInsert
       /\ group'.tasks = tasks
    \/ /\ ~gtick.on
       /\ group.tasks = tasks
       /\ PollStart
    \/ TakePage
    \/ PollBegin
    \/ PollEnd
    \/ HandleDropped
    \/ /\ SchedulerAtEnd
       /\ GroupTickStart
    \/ GroupTickPoll
    \/ /\ GroupTickDone
       /\ PollReturn
    \/ /\ pc = "idle"
       /\ GroupTickEnd

SpecSameTick == Init /\ [][NextSameTick]_vars

\* The notified and completed bits of the Scheduler's pages and of the
\* TaskGroup's pages are the same.
SameBits ==
    /\ Len(pages) = Len(group.waker_page_refs)
    /\ \A i \in DOMAIN pages :
        /\ pages[i].notified = group.waker_page_refs[i].notified
        /\ pages[i].completed = group.waker_page_refs[i].completed

\* C36: after the same inserts of tasks that wake only themselves, the list
\* that get_offsets_for_ready_tasks returns is the list of the slots that
\* one Scheduler::poll polled, in its order; poll_notified_task polls the
\* task of each slot of the list; and when both are through, the notified
\* and completed bits (and the tasks) are the same.
C36_TickAsPoll ==
    [][/\ GroupTickStart => gtick'.ready = polled
       /\ GroupTickPoll =>
            /\ gret'.op = "poll_notified_task"
            /\ gret'.arg = polled[Len(polled) - Len(gtick'.ready)]
            /\ gret'.val # "None"
       /\ PollReturn =>
            /\ SameBits
            /\ group.tasks = tasks]_vars

\* Both are through a tick that polled two tasks; one slot is completed and
\* another, whose task woke itself, is notified, on both sides.
C36_Witness ==
    /\ SchedulerAtEnd
    /\ GroupTickDone
    /\ Len(polled) = 2
    /\ \E s \in Slots : Occupied(s) /\ NotifiedBit(s) /\ GroupNotifiedBit(s)
    /\ \E s \in Slots : Occupied(s) /\ CompletedBit(s) /\ GroupCompletedBit(s)
====
